---- MODULE Spec2Model ----
(***************************************************************************)
(* The catalog crawler of dax_imgserv (python/lsst/imgserv/crawler.py):    *)
(* a single-threaded process that searches the data catalog for UNSCANNED  *)
(* datasets under WATCH_FOLDER, stats and checksums the file of each at    *)
(* WATCH_SITE, patches the result back, and re-enters itself in a          *)
(* sched.scheduler queue.                                                  *)
(*                                                                         *)
(* The data catalog (datacat Client), the file system and the credential   *)
(* file are the environment.  The catalog returns matching datasets in a   *)
(* stable order (by path), at most max_num of them; a patch call either    *)
(* applies the payload or raises DcException and changes nothing.  The     *)
(* file system is fixed while the crawler runs.  The interpreter is either *)
(* Python 2, where the output of cksum is a str and splits on " ", or      *)
(* Python 3, where it is bytes and bytes.split(" ") raises TypeError.      *)
(***************************************************************************)
EXTENDS Integers, Sequences, FiniteSets, TLC

(***************************************************************************)
(* Bounds of the model.                                                    *)
(***************************************************************************)
\* number of datasets the catalog holds (paths 1..NumDatasets, in order)
NumDatasets == 3
\* the max_num handed to Client.search (1000 in the source), scaled down so
\* that the catalog can hold more UNSCANNED datasets than one batch
MaxResults == 2
\* the longest time one blocking call (search, scan + patch) takes
StepSeconds == 3
\* the clock of a run saturates here (above RERUN_SECONDS)
MaxClock == 6

(***************************************************************************)
(* Program constants.                                                      *)
(***************************************************************************)
WATCH_FOLDER == "/LSST"
WATCH_SITE == "NCSA"
RERUN_SECONDS == 5

None == "None"
\* check_location before a location matches
NoLocation == [site |-> None, resource |-> None]
\* a metadata mapping is a set of key/value pairs; None and {} are both falsy
NoMetadata == {}

Paths == 1..NumDatasets

Min(a, b) == IF a < b THEN a ELSE b
Max(a, b) == IF a > b THEN a ELSE b

Range(s) == {s[i] : i \in 1..Len(s)}

(***************************************************************************)
(* The file system: what os.stat and the cksum program see.                *)
(***************************************************************************)
Files ==
    [ f \in {"/data/f1.fits", "/data/f2.fits", "/data/unreadable.fits", "/data/missing.fits"} |->
        CASE f = "/data/f1.fits"         -> [exists |-> TRUE,  readable |-> TRUE,  size |-> 2048, cksum |-> "abc123"]
          [] f = "/data/f2.fits"         -> [exists |-> TRUE,  readable |-> TRUE,  size |-> 4096, cksum |-> "def456"]
          [] f = "/data/unreadable.fits" -> [exists |-> TRUE,  readable |-> FALSE, size |-> 512,  cksum |-> "fff000"]
          [] f = "/data/missing.fits"    -> [exists |-> FALSE, readable |-> FALSE, size |-> 0,    cksum |-> ""] ]

(***************************************************************************)
(* The location lists a dataset of the catalog may carry.                  *)
(***************************************************************************)
Loc(s, r) == [site |-> s, resource |-> r]

LocationLists ==
    { << Loc("NCSA", "/data/f1.fits") >>,
      << Loc("SLAC", "/data/f1.fits") >>,
      << Loc("NCSA", "/data/missing.fits") >>,
      << Loc("NCSA", "/data/unreadable.fits") >>,
      << Loc("SLAC", "/data/missing.fits"), Loc("ncsa", "/data/unreadable.fits"),
         Loc("NCSA", "/data/f2.fits"), Loc("NCSA", "/data/missing.fits") >> }

VersionIdOf(p) == 10 + p

VARIABLES
    catalog,       \* the data catalog: path -> dataset (with its scanStatus)
    credsOk,       \* ~/.mysqlAuthLSST can be read and the fits database opened
    python,        \* the interpreter that runs the crawler: "py2" or "py3"
    pc,            \* where the process is
    caller,        \* who called the _run in progress: "__init__" or "sched"
    exitCause,     \* why the process ended
    queue,         \* self.sched: the events entered and not yet run
    elapsed,       \* seconds since the run in progress (or the last one) began
    searchOutcome, \* run(): the search call of the cycle: None, "ok", "DcException"
    results,       \* run(): unpack(resp.content)
    idx,           \* run(): position in results of the next dataset of the loop
    visited,       \* paths whose loop body began in the cycle
    fetched,       \* paths the search of the cycle returned, in its order
    scanned,       \* dataset path and file of every os.stat call of the cycle
    patchCalls,    \* the patch_dataset calls of the cycle, with their outcome
    prevPatchFailed, \* paths whose patch call failed in the cycle before
    prevDuration,  \* seconds the run before the one in progress took
    gap,           \* seconds from the start of the run before to the start of this one
    image          \* locateImage.get_image: the request in hand and what became of it

vars == << catalog, credsOk, python, pc, caller, exitCause, queue, elapsed,
           searchOutcome, results, idx, visited, fetched, scanned, patchCalls,
           prevPatchFailed, prevDuration, gap, image >>

\* the variables of the crawler
crawlerVars == << catalog, credsOk, python, pc, caller, exitCause, queue, elapsed,
                  searchOutcome, results, idx, visited, fetched, scanned, patchCalls,
                  prevPatchFailed, prevDuration, gap >>

(***************************************************************************)
(* sched.scheduler: the queue holds events in the order they are due; an   *)
(* event carries the time left until it is due.                            *)
(***************************************************************************)
Event(delay, priority, action) ==
    [delay |-> delay, priority |-> priority, action |-> action]

\* scheduler.enter: the event is due `delay` after the time of the call.
enter(q, delay, priority, action) ==
    LET e == Event(delay, priority, action)
        before == SelectSeq(q, LAMBDA x : x.delay < delay
                                \/ (x.delay = delay /\ x.priority <= priority))
        after  == SelectSeq(q, LAMBDA x : ~ (x.delay < delay
                                \/ (x.delay = delay /\ x.priority <= priority)))
    IN  before \o << e >> \o after

\* time passes: every pending event comes dt closer.
Pass(q, dt) == [i \in 1..Len(q) |-> [q[i] EXCEPT !.delay = Max(0, q[i].delay - dt)]]

Tick(e, dt) == Min(MaxClock, e + dt)

Durations == {0, StepSeconds}

(***************************************************************************)
(* The datacat client.                                                     *)
(***************************************************************************)
\* The datasets of the catalog that match the query, in catalog order.
RECURSIVE Matching(_, _)
Matching(cat, p) ==
    IF p > NumDatasets THEN << >>
    ELSE IF cat[p].scanStatus = "UNSCANNED"
         THEN << p >> \o Matching(cat, p + 1)
         ELSE Matching(cat, p + 1)

\* Client.search(WATCH_FOLDER, version="current", site="all",
\*               query="scanStatus = 'UNSCANNED'", max_num=...), unpacked
search(cat, max_num) ==
    LET m == Matching(cat, 1)
        n == Min(Len(m), max_num)
    IN  [i \in 1..n |-> [path |-> cat[m[i]].path,
                         versionId |-> cat[m[i]].versionId,
                         locations |-> cat[m[i]].locations]]

\* Client.patch_dataset when the catalog applies it.
patch_dataset(cat, path, payload, versionId, site) ==
    IF path \in DOMAIN cat /\ cat[path].versionId = versionId
       /\ \E i \in 1..Len(cat[path].locations) : cat[path].locations[i].site = site
    THEN [cat EXCEPT ![path].scanStatus = payload.scanStatus]
    ELSE cat

(***************************************************************************)
(* Crawler.run, the body of the loop over the datasets.                    *)
(***************************************************************************)
\* lines 86-90: the first location whose site is WATCH_SITE, or None
RECURSIVE FirstAt(_, _, _)
FirstAt(locations, site, i) ==
    IF i > Len(locations) THEN NoLocation
    ELSE IF locations[i].site = site THEN locations[i]
         ELSE FirstAt(locations, site, i + 1)

\* (mutant) the loop over the locations has no break: the last match stays
check_location_last(locations) ==
    LET hits == {i \in 1..Len(locations) : locations[i].site = WATCH_SITE}
    IN  IF hits = {} THEN NoLocation
        ELSE locations[CHOOSE i \in hits : \A j \in hits : j <= i]

check_location(locations) == FirstAt(locations, WATCH_SITE, 1)

\* os.stat(file_path): raises OSError when the file does not exist
os_stat(path) ==
    IF Files[path].exists
    THEN [raised |-> None, st_size |-> Files[path].size]
    ELSE [raised |-> "OSError", st_size |-> 0]

\* the cksum program: exit code and standard output split on " "
cksum_proc(path) ==
    IF Files[path].exists /\ Files[path].readable
    THEN [ec |-> 0, out |-> << Files[path].cksum, "size", path >>]
    ELSE [ec |-> 1, out |-> << "" >>]

\* Crawler.get_cksum: the exit code is looked at and ignored; the first word
\* of the output is the checksum
get_cksum(path, interpreter) ==
    IF interpreter = "py3"
    THEN [raised |-> "TypeError", cksum |-> ""]
    ELSE [raised |-> None, cksum |-> cksum_proc(path).out[1]]

\* Crawler.get_metadata
get_metadata(path) == NoMetadata

\* (mutant) the metadata is attached whatever the hook returned
scan_result_always_md(stat, cksum, md) ==
    [size |-> stat.st_size, checksum |-> cksum,
     locationScanned |-> "utcnow", scanStatus |-> "OK", versionMetadata |-> md]

\* lines 98-107: the patch payload
scan_result(stat, cksum, md) ==
    LET base == [size |-> stat.st_size, checksum |-> cksum,
                 locationScanned |-> "utcnow", scanStatus |-> "OK"]
    IN  IF md # NoMetadata
        THEN [size |-> stat.st_size, checksum |-> cksum,
              locationScanned |-> "utcnow", scanStatus |-> "OK",
              versionMetadata |-> md]
        ELSE base

(***************************************************************************)
(* The state at the call of self._run() in Crawler.__init__: the client    *)
(* and the scheduler exist, the queue is empty.                            *)
(***************************************************************************)
(***************************************************************************)
(* locateImage.py: text is a sequence of characters, so that strip and     *)
(* lower do what str.strip and str.lower do.                               *)
(***************************************************************************)
Whitespace == {" ", "\t", "\n"}

UpperToLower ==
    [ c \in {"R", "A", "W", "C", "L", "E", "X", "P", "D", "O"} |->
        CASE c = "R" -> "r" [] c = "A" -> "a" [] c = "W" -> "w" [] c = "C" -> "c"
          [] c = "L" -> "l" [] c = "E" -> "e" [] c = "X" -> "x" [] c = "P" -> "p"
          [] c = "D" -> "d" [] c = "O" -> "o" ]

\* str.lower
lower(text) ==
    [i \in 1..Len(text) |->
        IF text[i] \in DOMAIN UpperToLower THEN UpperToLower[text[i]] ELSE text[i]]

RECURSIVE lstrip(_)
lstrip(text) ==
    IF text # << >> /\ Head(text) \in Whitespace THEN lstrip(Tail(text)) ELSE text

RECURSIVE rstrip(_)
rstrip(text) ==
    IF text # << >> /\ text[Len(text)] \in Whitespace
    THEN rstrip(SubSeq(text, 1, Len(text) - 1))
    ELSE text

\* str.strip
strip(text) == rstrip(lstrip(text))

\* (mutant) the image type is compared as it was typed
get_ds_case_sensitive(image_type) ==
    LET it == image_type
    IN  IF it = << "r", "a", "w" >> THEN [raised |-> None, ds |-> "W13RawDb"]
        ELSE IF it = << "c", "a", "l", "e", "x", "p" >>
             THEN [raised |-> None, ds |-> "W13CalexpDb"]
        ELSE IF it = << "d", "e", "e", "p", "c", "o", "a", "d", "d" >>
             THEN [raised |-> None, ds |-> "W13DeepCoaddDb"]
        ELSE [raised |-> "Invalid ds parameter", ds |-> None]

\* locateImage.get_ds
get_ds(image_type) ==
    LET it == lower(image_type)
    IN  IF it = << "r", "a", "w" >> THEN [raised |-> None, ds |-> "W13RawDb"]
        ELSE IF it = << "c", "a", "l", "e", "x", "p" >>
             THEN [raised |-> None, ds |-> "W13CalexpDb"]
        ELSE IF it = << "d", "e", "e", "p", "c", "o", "a", "d", "d" >>
             THEN [raised |-> None, ds |-> "W13DeepCoaddDb"]
        ELSE [raised |-> "Invalid ds parameter", ds |-> None]

\* locateImage.image_open: the database object is made, then the ImageGetter
image_open(W13db) == "ImageGetter(" \o W13db \o ")"

\* no request in hand
NoRequest ==
    [pc |-> "idle", has_ds |-> FALSE, ds |-> << >>, db |-> None, intended |-> None,
     raised |-> None, meta_db |-> "unset", w13db |-> None, img_getter |-> None,
     api_calls |-> << >>]

\* (mutant) the constructor only enters the first run into the scheduler
init_pc_deferred == "RESCHEDULING"

\* line 37: the constructor calls self._run() itself
init_pc == "FETCHING"

Init ==
    /\ \E locs \in [Paths -> LocationLists], st \in [Paths -> {"UNSCANNED", "OK"}] :
          catalog = [p \in Paths |-> [path |-> p, versionId |-> VersionIdOf(p),
                                      locations |-> locs[p], scanStatus |-> st[p]]]
    /\ credsOk \in BOOLEAN
    /\ python \in {"py2", "py3"}
    /\ pc = init_pc
    /\ caller = "__init__"
    /\ exitCause = None
    /\ queue = << >>
    /\ elapsed = 0
    /\ searchOutcome = None
    /\ results = << >>
    /\ idx = 0
    /\ visited = {}
    /\ fetched = << >>
    /\ scanned = {}
    /\ patchCalls = << >>
    /\ prevPatchFailed = {}
    /\ prevDuration = 0
    /\ gap = 0
    /\ image = NoRequest

(***************************************************************************)
(* Crawler.run up to the loop: credentials, the fits database, the search. *)
(***************************************************************************)
\* (mutant) the handler prints the error and goes on with what the catalog holds
on_search_error_goes_on(cat) ==
    [pc |-> "PROCESSING", exitCause |-> None, results |-> search(cat, MaxResults)]

\* lines 70-80: the handler of a failed search prints the error and exits
on_search_error(cat) ==
    [pc |-> "EXITED", exitCause |-> "SystemExit", results |-> << >>]

run_search ==
    /\ pc = "FETCHING"
    /\ IF ~ credsOk
       THEN /\ pc' = "EXITED"
            /\ exitCause' = "ConfigError"
            /\ UNCHANGED << searchOutcome, results, idx, elapsed, queue, fetched >>
       ELSE \E ok \in BOOLEAN, dt \in Durations :
            /\ elapsed' = Tick(elapsed, dt)
            /\ queue' = Pass(queue, dt)
            /\ IF ok
               THEN LET r == search(catalog, MaxResults)
                    IN  /\ searchOutcome' = "ok"
                        /\ results' = r
                        /\ fetched' = [i \in 1..Len(r) |-> r[i].path]
                        /\ idx' = 1
                        /\ pc' = IF r = << >> THEN "RESCHEDULING" ELSE "PROCESSING"
                        /\ UNCHANGED exitCause
               ELSE LET h == on_search_error(catalog)
                    IN  /\ searchOutcome' = "DcException"
                        /\ results' = h.results
                        /\ fetched' = [i \in 1..Len(h.results) |-> h.results[i].path]
                        /\ idx' = 1
                        /\ pc' = h.pc
                        /\ exitCause' = h.exitCause
    /\ UNCHANGED << catalog, credsOk, python, caller, visited, scanned, patchCalls,
                    prevPatchFailed, prevDuration, gap, image >>

(***************************************************************************)
(* Crawler.run, one pass of the loop (lines 84-114).                       *)
(***************************************************************************)
\* (mutant) the catalog is searched again after every dataset
after_dataset_refetch(i, n) == IF i < n THEN "FETCHING" ELSE "RESCHEDULING"

\* (mutant) the loop body keeps using the first dataset of the batch
loop_item_stale(res, i) == res[1]

\* (mutant) the loop walks the batch from its end
loop_item_reversed(res, i) == res[Len(res) + 1 - i]

\* line 84: for dataset in results, the dataset of pass i
loop_item(res, i) == res[i]

\* where the loop goes after the dataset at position i of n
after_dataset(i, n) == IF i < n THEN "PROCESSING" ELSE "RESCHEDULING"

\* (mutant) the handler marks the dataset as failed
on_patch_error_marks(cat, call) == [cat EXCEPT ![call.path].scanStatus = "ERROR"]

\* lines 113-114: the handler of a failed patch call prints and goes on
on_patch_error(cat, call) == cat

\* (mutant) the site of the patch call is that of the dataset's first location
patch_args_first_site(dataset) ==
    [path |-> dataset.path, versionId |-> dataset.versionId,
     site |-> dataset.locations[1].site]

\* lines 110-111: the dataset, version and site a patch call names
patch_args(dataset) ==
    [path |-> dataset.path, versionId |-> dataset.versionId, site |-> WATCH_SITE]

\* an exception nothing catches ends the process
raise(kind) ==
    /\ pc' = "EXITED"
    /\ exitCause' = kind
    /\ UNCHANGED << catalog, queue, elapsed, idx, patchCalls >>

run_dataset ==
    /\ pc = "PROCESSING"
    /\ idx \in 1..Len(results)
    /\ LET dataset == loop_item(results, idx)
           location == check_location(dataset.locations)
       IN  /\ visited' = visited \cup {dataset.path}
           /\ scanned' = IF location = NoLocation THEN scanned
                         ELSE scanned \cup {[path |-> dataset.path,
                                             file_path |-> location.resource]}
           /\ IF location = NoLocation
              THEN raise("AttributeError")
              ELSE LET file_path == location.resource
                       stat == os_stat(file_path)
                       cksum == get_cksum(file_path, python)
                   IN  IF stat.raised # None
                       THEN raise(stat.raised)
                       ELSE IF cksum.raised # None
                       THEN raise(cksum.raised)
                       ELSE \E outcome \in {"ok", "DcException"}, dt \in Durations :
                            LET payload == scan_result(stat, cksum.cksum,
                                                       get_metadata(file_path))
                                args == patch_args(dataset)
                                call == [path |-> args.path, payload |-> payload,
                                         versionId |-> args.versionId,
                                         site |-> args.site, outcome |-> outcome]
                            IN  /\ patchCalls' = Append(patchCalls, call)
                                /\ catalog' = IF outcome = "ok"
                                              THEN patch_dataset(catalog, call.path,
                                                       call.payload, call.versionId, call.site)
                                              ELSE on_patch_error(catalog, call)
                                /\ idx' = idx + 1
                                /\ pc' = after_dataset(idx, Len(results))
                                /\ elapsed' = Tick(elapsed, dt)
                                /\ queue' = Pass(queue, dt)
                                /\ UNCHANGED exitCause
    /\ UNCHANGED << credsOk, python, caller, searchOutcome, results, fetched,
                    prevPatchFailed, prevDuration, gap, image >>

(***************************************************************************)
(* Crawler._run after run() has returned (line 44).                        *)
(***************************************************************************)
\* (mutant) the next run is entered twice
reschedule_twice(q) ==
    enter(enter(q, RERUN_SECONDS, 1, "_run"), RERUN_SECONDS, 1, "_run")

\* (mutant) the next run is due RERUN_SECONDS after the start of this one
reschedule_from_start(q) == enter(q, Max(0, RERUN_SECONDS - elapsed), 1, "_run")

reschedule(q) == enter(q, RERUN_SECONDS, 1, "_run")

run_enter ==
    /\ pc = "RESCHEDULING"
    /\ queue' = reschedule(queue)
    /\ pc' = IF caller = "__init__" THEN "CONSTRUCTED" ELSE "IDLE"
    /\ results' = << >>
    /\ idx' = 0
    /\ UNCHANGED << catalog, credsOk, python, caller, exitCause, elapsed, searchOutcome,
                    visited, fetched, scanned, patchCalls, prevPatchFailed,
                    prevDuration, gap, image >>

(***************************************************************************)
(* main: c = Crawler() has returned, c.start() calls self.sched.run().     *)
(***************************************************************************)
start ==
    /\ pc = "CONSTRUCTED"
    /\ pc' = "IDLE"
    /\ UNCHANGED << catalog, credsOk, python, caller, exitCause, queue, elapsed,
                    searchOutcome, results, idx, visited, fetched, scanned, patchCalls,
                    prevPatchFailed, prevDuration, gap, image >>

(***************************************************************************)
(* scheduler.run: with an empty queue it returns (and main with it);       *)
(* otherwise it sleeps until the first event is due, removes it from the   *)
(* queue and calls its action, self._run, which enters run().              *)
(***************************************************************************)
PatchFailures(calls) ==
    {calls[i].path : i \in {j \in 1..Len(calls) : calls[j].outcome = "DcException"}}

sched_run ==
    /\ pc = "IDLE"
    /\ IF queue = << >>
       THEN /\ pc' = "EXITED"
            /\ exitCause' = "main returned"
            /\ UNCHANGED << queue, caller, elapsed, searchOutcome, visited, fetched, scanned,
                            patchCalls, prevPatchFailed, prevDuration, gap >>
       ELSE /\ queue' = Pass(Tail(queue), Head(queue).delay)
            /\ pc' = "FETCHING"
            /\ caller' = "sched"
            /\ elapsed' = 0
            /\ searchOutcome' = None
            /\ visited' = {}
            /\ fetched' = << >>
            /\ scanned' = {}
            /\ patchCalls' = << >>
            /\ prevPatchFailed' = PatchFailures(patchCalls)
            /\ prevDuration' = elapsed
            /\ gap' = elapsed + Head(queue).delay
            /\ UNCHANGED exitCause
    /\ UNCHANGED << catalog, credsOk, python, results, idx, image >>

Next ==
    \/ run_search
    \/ run_dataset
    \/ run_enter
    \/ start
    \/ sched_run

Spec == Init /\ [][Next]_vars

TypeOK ==
    /\ pc \in {"FETCHING", "PROCESSING", "RESCHEDULING", "CONSTRUCTED", "IDLE", "EXITED"}
    /\ caller \in {"__init__", "sched"}
    /\ python \in {"py2", "py3"}
    /\ searchOutcome \in {None, "ok", "DcException"}
    /\ elapsed \in 0..MaxClock
    /\ visited \subseteq Paths
    /\ prevPatchFailed \subseteq Paths

(***************************************************************************)
(* The process goes on as long as it has not ended; a catalog that is      *)
(* reached again and again answers a search, and applies a patch, in the   *)
(* end.                                                                    *)
(***************************************************************************)
search_succeeds == run_search /\ searchOutcome' = "ok"

patch_succeeds == run_dataset /\ catalog' # catalog

FairSpec ==
    /\ Init /\ [][Next]_vars
    /\ WF_vars(Next)
    /\ SF_vars(search_succeeds)
    /\ SF_vars(patch_succeeds)

(***************************************************************************)
(* locateImage.get_image, called with one request.  The requests are made  *)
(* of a word in some casing between two runs of whitespace, and each one   *)
(* remembers which word it was made of.                                    *)
(***************************************************************************)
MaxPad == 2

Pads == UNION { [1..n -> Whitespace] : n \in 0..MaxPad }

LowerToUpper ==
    [ c \in {"r", "a", "w", "c", "l", "e", "x", "p", "d", "o"} |->
        CASE c = "r" -> "R" [] c = "a" -> "A" [] c = "w" -> "W" [] c = "c" -> "C"
          [] c = "l" -> "L" [] c = "e" -> "E" [] c = "x" -> "X" [] c = "p" -> "P"
          [] c = "d" -> "D" [] c = "o" -> "O" ]

\* the word with the letters at the positions ups in upper case
UpperAt(word, ups) ==
    [i \in 1..Len(word) |->
        IF i \in ups /\ word[i] \in DOMAIN LowerToUpper
        THEN LowerToUpper[word[i]] ELSE word[i]]

\* all lower, all upper, capitalised, and as in deepCoadd
Casings(word) == { {}, 1..Len(word), {1}, {5} }

Words ==
    { [word |-> << "r", "a", "w" >>, intended |-> "raw"],
      [word |-> << "c", "a", "l", "e", "x", "p" >>, intended |-> "calexp"],
      [word |-> << "d", "e", "e", "p", "c", "o", "a", "d", "d" >>,
       intended |-> "deepcoadd"],
      [word |-> << "c", "o", "a", "d", "d" >>, intended |-> "invalid"],
      [word |-> << "r", "a", "w", "s" >>, intended |-> "invalid"],
      [word |-> << "r", "a", " ", "w" >>, intended |-> "invalid"],
      [word |-> << >>, intended |-> "invalid"] }

Databases == {None, "w13_db"}

\* the api_params that Dispatcher.find_api resolves a request to
ApiParams ==
    UNION { { [has_ds |-> TRUE, ds |-> l \o UpperAt(w.word, ups) \o r, db |-> db,
                intended |-> w.intended] :
                  l \in Pads, r \in Pads, ups \in Casings(w.word), db \in Databases } :
            w \in Words }
    \cup { [has_ds |-> FALSE, ds |-> << >>, db |-> db, intended |-> "missing"] :
              db \in Databases }

\* the api function that the dispatcher found is called with the getter
api(img_getter, api_params) == [img_getter |-> img_getter, ds |-> api_params.ds]

\* the request as get_image is called with it
Called(api_params) ==
    [NoRequest EXCEPT !.pc = "called",
                      !.has_ds = api_params.has_ds,
                      !.ds = api_params.ds,
                      !.db = api_params.db,
                      !.intended = api_params.intended]

get_image ==
    /\ image.pc = "called"
    /\ LET api_params == image
           called == [image EXCEPT !.meta_db = api_params.db]
       IN  IF ~api_params.has_ds
           THEN image' = [called EXCEPT !.pc = "raised",
                                        !.raised = "Missing ds parameter"]
           ELSE LET w13db == get_ds(strip(api_params.ds))
                IN  IF w13db.raised # None
                    THEN image' = [called EXCEPT !.pc = "raised",
                                                 !.raised = w13db.raised]
                    ELSE LET img_getter == image_open(w13db.ds)
                         IN  image' = [called EXCEPT
                                           !.pc = "returned",
                                           !.w13db = w13db.ds,
                                           !.img_getter = img_getter,
                                           !.api_calls =
                                               << api(img_getter, api_params) >>]
    /\ UNCHANGED crawlerVars

\* the image server holds no crawler
ImageInit ==
    /\ catalog = [p \in Paths |-> [path |-> p, versionId |-> VersionIdOf(p),
                                    locations |-> << >>, scanStatus |-> "OK"]]
    /\ credsOk = TRUE
    /\ python = "py3"
    /\ pc = "EXITED"
    /\ caller = "__init__"
    /\ exitCause = None
    /\ queue = << >>
    /\ elapsed = 0
    /\ searchOutcome = None
    /\ results = << >>
    /\ idx = 0
    /\ visited = {}
    /\ fetched = << >>
    /\ scanned = {}
    /\ patchCalls = << >>
    /\ prevPatchFailed = {}
    /\ prevDuration = 0
    /\ gap = 0
    /\ \E api_params \in ApiParams : image = Called(api_params)

ImageNext == get_image

ImageSpec == ImageInit /\ [][ImageNext]_vars

(***************************************************************************)
(* Vocabulary of the properties.                                           *)
(***************************************************************************)
\* the dataset has a file at the scan site that can be stat'ed and checksummed
Scannable(d) ==
    LET l == check_location(d.locations)
    IN  /\ l # NoLocation
        /\ Files[l.resource].exists
        /\ Files[l.resource].readable

PatchedPaths == {patchCalls[i].path : i \in 1..Len(patchCalls)}

FailedPatchPaths == PatchFailures(patchCalls)

BatchPaths == {results[i].path : i \in 1..Len(results)}

\* the cycle is over: run() has returned or the process has ended in it
CycleOver == pc \in {"RESCHEDULING", "EXITED"}

(***************************************************************************)
(* C1.  When the search call of a cycle fails, the process does not end:   *)
(* it reaches the rescheduling step and a next run is entered into the     *)
(* scheduler.                                                              *)
(***************************************************************************)
C1_SearchFailureReschedules ==
    searchOutcome = "DcException" =>
        /\ pc # "EXITED"
        /\ pc = "RESCHEDULING" \/ queue # << >>

(***************************************************************************)
(* C2.  Isolation within a batch: when a cycle is over, every dataset of   *)
(* the batch that is itself scannable, and whose own patch call did not    *)
(* fail, has been patched to OK, whatever happened to the other datasets   *)
(* of the batch.                                                           *)
(***************************************************************************)
C2_BatchIsolation ==
    (CycleOver /\ searchOutcome = "ok") =>
        \A i \in 1..Len(results) :
            (Scannable(results[i]) /\ results[i].path \notin FailedPatchPaths)
                => catalog[results[i].path].scanStatus = "OK"

(***************************************************************************)
(* C3.  Dataset-scoped errors stay in the processing phase: a cycle that   *)
(* met a dataset without a location at the scan site, or with a missing or *)
(* unreadable file, does not end the process.                              *)
(***************************************************************************)
C3_DatasetErrorsContained ==
    (\E p \in visited : ~ Scannable(catalog[p])) => pc # "EXITED"

(***************************************************************************)
(* C4.  A dataset with no location at the scan site is a reported failure  *)
(* of that dataset: the loop is not aborted by an exception, no patch call *)
(* is issued for the dataset and its scanStatus stays UNSCANNED.           *)
(***************************************************************************)
C4_LocationMissingReported ==
    \A i \in 1..Len(results) :
        (results[i].path \in visited
         /\ check_location(results[i].locations) = NoLocation)
            => /\ exitCause = None
               /\ results[i].path \notin PatchedPaths
               /\ catalog[results[i].path].scanStatus = "UNSCANNED"

(***************************************************************************)
(* C5.  A patch call with scanStatus OK is issued only for a dataset whose *)
(* file the cksum program could checksum (exit code 0); a dataset whose    *)
(* checksum step failed keeps scanStatus UNSCANNED.                        *)
(***************************************************************************)
C5_PatchOnlyAfterChecksum ==
    \A p \in visited :
        LET l == check_location(catalog[p].locations)
        IN  (l # NoLocation /\ cksum_proc(l.resource).ec # 0)
                => /\ p \notin PatchedPaths
                   /\ catalog[p].scanStatus = "UNSCANNED"

(***************************************************************************)
(* C6.  At least once: a failed patch call is caught and the loop goes on  *)
(* with the next dataset, the dataset keeps scanStatus UNSCANNED, and the  *)
(* search of the next cycle returns it again, so that the cycle scans it   *)
(* again.                                                                  *)
(***************************************************************************)
C6_AtLeastOnce ==
    /\ \A p \in FailedPatchPaths : catalog[p].scanStatus = "UNSCANNED"
    /\ (/\ patchCalls # << >>
        /\ patchCalls[Len(patchCalls)].outcome = "DcException"
        /\ Cardinality(visited) = Len(patchCalls))
            => /\ pc \in {"PROCESSING", "RESCHEDULING", "CONSTRUCTED", "IDLE"}
               /\ exitCause = None
               /\ pc = "PROCESSING" =>
                    /\ idx = Len(patchCalls) + 1
                    /\ results[idx].path \notin visited
    /\ (searchOutcome = "ok" /\ pc \in {"PROCESSING", "RESCHEDULING"})
            => prevPatchFailed \subseteq BatchPaths
    /\ (searchOutcome = "ok" /\ pc = "RESCHEDULING")
            => prevPatchFailed \subseteq PatchedPaths

C6_Witness ==
    /\ pc = "RESCHEDULING"
    /\ searchOutcome = "ok"
    /\ prevPatchFailed # {}
    /\ prevPatchFailed \subseteq PatchedPaths
    /\ FailedPatchPaths # {}

(***************************************************************************)
(* C7.  Batch bound without loss: no search returns more than the bound,   *)
(* and with credentials in place every scannable dataset of the catalog is *)
(* OK in the end, those beyond the bound of the first batch included.      *)
(***************************************************************************)
AllScannableOK ==
    \A p \in Paths : Scannable(catalog[p]) => catalog[p].scanStatus = "OK"

C7_BatchBoundNoLoss ==
    credsOk => ([](Len(results) <= MaxResults) /\ <>AllScannableOK)

(***************************************************************************)
(* C8.  No partial processing: in a cycle whose search call failed, the    *)
(* loop over the datasets is not entered, no dataset is scanned and no     *)
(* patch call is issued.                                                   *)
(***************************************************************************)
C8_NoPartialProcessing ==
    searchOutcome = "DcException" =>
        /\ visited = {}
        /\ patchCalls = << >>
        /\ pc # "PROCESSING"

C8_Witness ==
    /\ searchOutcome = "DcException"
    /\ caller = "sched"
    /\ \E p \in Paths : catalog[p].scanStatus = "UNSCANNED" /\ Scannable(catalog[p])

(***************************************************************************)
(* C9.  At most one run is pending: the queue of the scheduler never holds *)
(* more than one event, also when a run lasted longer than RERUN_SECONDS.  *)
(***************************************************************************)
C9_AtMostOnePending == Len(queue) <= 1

C9_Witness ==
    /\ Len(queue) = 1
    /\ queue[1].action = "_run"
    /\ caller = "sched"
    /\ elapsed > RERUN_SECONDS

(***************************************************************************)
(* C10.  One cycle at a time: a cycle begins its search only from the idle *)
(* scheduler, after the run before it has returned from the loop over its  *)
(* batch and has been rescheduled.                                         *)
(***************************************************************************)
C10_OneCycleAtATime ==
    [][(pc' = "FETCHING" /\ pc # "FETCHING")
          => (pc = "IDLE" /\ results = << >> /\ idx = 0)]_vars

C10_Witness ==
    /\ pc = "FETCHING"
    /\ caller = "sched"
    /\ prevPatchFailed # {}

(***************************************************************************)
(* C11 (as stated).  The next run is due RERUN_SECONDS after the start of  *)
(* the run before: a run shorter than the interval is followed by a start  *)
(* exactly one interval after its own start, a longer run by a start as    *)
(* soon as it returns.                                                     *)
(***************************************************************************)
C11_IntervalFromStart ==
    caller = "sched" =>
        /\ prevDuration < RERUN_SECONDS => gap = RERUN_SECONDS
        /\ prevDuration >= RERUN_SECONDS => gap = prevDuration

(***************************************************************************)
(* C11 (amended).  The next run is due RERUN_SECONDS after the run before  *)
(* has returned: the starts of two consecutive runs are the duration of    *)
(* the first plus RERUN_SECONDS apart.                                     *)
(***************************************************************************)
C11_IntervalFromCompletion ==
    caller = "sched" =>
        /\ gap >= prevDuration + RERUN_SECONDS
        /\ prevDuration < MaxClock => gap = prevDuration + RERUN_SECONDS

C11_Witness ==
    /\ caller = "sched"
    /\ pc = "FETCHING"
    /\ prevDuration = StepSeconds
    /\ gap = StepSeconds + RERUN_SECONDS

(***************************************************************************)
(* C12.  Within a cycle the patch calls follow the order of the search     *)
(* result: every call names a dataset of the batch, and of two calls the   *)
(* earlier one names the dataset the search returned earlier.              *)
(***************************************************************************)
PositionIn(seq, p) == CHOOSE i \in 1..Len(seq) : seq[i] = p

C12_BatchOrder ==
    /\ \A k \in 1..Len(patchCalls) : patchCalls[k].path \in Range(fetched)
    /\ \A j, k \in 1..Len(patchCalls) :
          j < k => PositionIn(fetched, patchCalls[j].path)
                     < PositionIn(fetched, patchCalls[k].path)
    /\ \A i, j \in 1..Len(fetched) :
          (i < j /\ fetched[j] \in visited) => fetched[i] \in visited

C12_Witness ==
    /\ pc = "RESCHEDULING"
    /\ Len(fetched) >= 2
    /\ Len(patchCalls) = Len(fetched)
    /\ patchCalls[1].path = fetched[1]
    /\ patchCalls[2].path = fetched[2]

(***************************************************************************)
(* C13.  The file scanned for a dataset is the resource of the first       *)
(* location, in catalog order, whose site is exactly WATCH_SITE: no        *)
(* location before it has that site (a site spelled in another case is not *)
(* that site), later matches are not used, and a dataset with a match is   *)
(* scanned at one file only.                                               *)
(***************************************************************************)
IsFirstMatch(locations, i) ==
    /\ locations[i].site = WATCH_SITE
    /\ \A j \in 1..(i - 1) : locations[j].site # WATCH_SITE

C13_FirstMatchingLocation ==
    /\ \A s \in scanned :
          \E i \in 1..Len(catalog[s.path].locations) :
              /\ IsFirstMatch(catalog[s.path].locations, i)
              /\ catalog[s.path].locations[i].resource = s.file_path
    /\ \A s, t \in scanned : s.path = t.path => s.file_path = t.file_path
    /\ \A p \in visited :
          (\E i \in 1..Len(catalog[p].locations) :
               catalog[p].locations[i].site = WATCH_SITE)
              => \E s \in scanned : s.path = p

C13_Witness ==
    \E s \in scanned :
        /\ s.file_path = "/data/f2.fits"
        /\ Len(catalog[s.path].locations) = 4
        /\ catalog[s.path].locations[2].site = "ncsa"
        /\ catalog[s.path].locations[4].site = WATCH_SITE
        /\ s.path \in PatchedPaths

(***************************************************************************)
(* C14.  A cycle issues patch calls only for datasets its search returned, *)
(* at most one per dataset; a step changes the catalog entry of no dataset *)
(* outside the batch, and no dataset is created or deleted.                *)
(***************************************************************************)
C14_OnlyFetchedPatchedOnce ==
    /\ [](\A k \in 1..Len(patchCalls) : patchCalls[k].path \in Range(fetched))
    /\ [](\A j, k \in 1..Len(patchCalls) :
              patchCalls[j].path = patchCalls[k].path => j = k)
    /\ [](DOMAIN catalog = Paths)
    /\ [][\A p \in Paths :
              catalog'[p] # catalog[p]
                  => (p \in Range(fetched) /\ pc = "PROCESSING")]_vars

C14_Witness ==
    /\ pc = "RESCHEDULING"
    /\ Len(patchCalls) = MaxResults
    /\ \E p \in Paths : /\ p \notin Range(fetched)
                        /\ catalog[p].scanStatus = "UNSCANNED"
    /\ \A k \in 1..Len(patchCalls) : catalog[patchCalls[k].path].scanStatus = "OK"

(***************************************************************************)
(* C15.  The k-th patch call of a cycle names the k-th dataset of the      *)
(* batch, the dataset just scanned: its path, its versionId, and the site  *)
(* WATCH_SITE at which its location was selected.                          *)
(***************************************************************************)
C15_PatchTargetsScannedDataset ==
    \A k \in 1..Len(patchCalls) :
        /\ k <= Len(fetched)
        /\ patchCalls[k].path = fetched[k]
        /\ patchCalls[k].versionId = catalog[fetched[k]].versionId
        /\ patchCalls[k].site = WATCH_SITE
        /\ \E s \in scanned :
              /\ s.path = patchCalls[k].path
              /\ \E i \in 1..Len(catalog[s.path].locations) :
                    /\ catalog[s.path].locations[i].site = patchCalls[k].site
                    /\ catalog[s.path].locations[i].resource = s.file_path

C15_Witness ==
    /\ Len(patchCalls) >= 2
    /\ patchCalls[1].versionId # patchCalls[2].versionId
    /\ Len(catalog[patchCalls[2].path].locations) = 4
    /\ catalog[patchCalls[2].path].locations[1].site # WATCH_SITE

(***************************************************************************)
(* C16.  Every patch payload holds exactly size, checksum, locationScanned *)
(* and scanStatus = "OK", with the size (and, for a readable file, the     *)
(* checksum) of the file of its own dataset; a payload has versionMetadata *)
(* exactly when the metadata hook returned something, which the hook of    *)
(* the crawler never does.                                                 *)
(***************************************************************************)
PayloadKeys == {"size", "checksum", "locationScanned", "scanStatus"}

SomeMetadata == {<< "NAXIS", "2" >>}

C16_PayloadContent ==
    /\ \A k \in 1..Len(patchCalls) :
          LET c == patchCalls[k]
              f == check_location(catalog[c.path].locations).resource
          IN  /\ DOMAIN c.payload = PayloadKeys
              /\ c.payload.scanStatus = "OK"
              /\ c.payload.size = Files[f].size
              /\ Files[f].readable => c.payload.checksum = Files[f].cksum
    /\ \A k \in 1..Len(patchCalls) :
          \A md \in {get_metadata("/data/f1.fits"), SomeMetadata} :
              LET r == scan_result([st_size |-> patchCalls[k].payload.size],
                                   patchCalls[k].payload.checksum, md)
              IN  ("versionMetadata" \in DOMAIN r) <=> (md # NoMetadata)

C16_Witness ==
    /\ Len(patchCalls) >= 2
    /\ patchCalls[1].payload.size # patchCalls[2].payload.size
    /\ patchCalls[1].payload.checksum # patchCalls[2].payload.checksum
    /\ "versionMetadata" \notin DOMAIN patchCalls[2].payload

(***************************************************************************)
(* C17.  When Crawler() has returned and start() has not been called, one  *)
(* complete cycle has run inside the constructor: the search was made,     *)
(* every dataset it returned was processed, the patches the catalog took   *)
(* are in the catalog, and exactly one next run is in the queue.  start()  *)
(* itself changes neither the catalog nor the queue.                       *)
(***************************************************************************)
C17_ConstructorRunsFirstCycle ==
    /\ [](pc = "CONSTRUCTED" =>
            /\ caller = "__init__"
            /\ searchOutcome = "ok"
            /\ visited = Range(fetched)
            /\ \A i \in 1..Len(fetched) :
                  Scannable(catalog[fetched[i]]) => fetched[i] \in PatchedPaths
            /\ \A k \in 1..Len(patchCalls) :
                  patchCalls[k].outcome = "ok"
                      => catalog[patchCalls[k].path].scanStatus = "OK"
            /\ queue = << Event(RERUN_SECONDS, 1, "_run") >>)
    /\ [][pc = "CONSTRUCTED" =>
            (pc' = "IDLE" /\ catalog' = catalog /\ queue' = queue)]_vars

C17_Witness ==
    /\ pc = "CONSTRUCTED"
    /\ Len(queue) = 1
    /\ \E k \in 1..Len(patchCalls) :
          /\ patchCalls[k].outcome = "ok"
          /\ catalog[patchCalls[k].path].scanStatus = "OK"

\* C18: get_image raises "Missing ds parameter" when the resolved parameters
\* have no ds, and "Invalid ds parameter" when ds, stripped of whitespace and
\* without regard to case, is not raw, calexp or deepcoadd; in both cases no
\* image getter is made and the api function is not called.  Each of the
\* three names selects its own database class, and the api is called once
\* with the getter made of it.
C18_DsValidation ==
    image.pc \in {"raised", "returned"} =>
        /\ image.intended = "missing" =>
              /\ image.pc = "raised"
              /\ image.raised = "Missing ds parameter"
        /\ image.intended = "invalid" =>
              /\ image.pc = "raised"
              /\ image.raised = "Invalid ds parameter"
        /\ image.pc = "raised" =>
              /\ image.w13db = None
              /\ image.img_getter = None
              /\ image.api_calls = << >>
        /\ image.intended \in {"raw", "calexp", "deepcoadd"} =>
              /\ image.pc = "returned"
              /\ image.raised = None
              /\ image.w13db = CASE image.intended = "raw" -> "W13RawDb"
                                  [] image.intended = "calexp" -> "W13CalexpDb"
                                  [] image.intended = "deepcoadd" -> "W13DeepCoaddDb"
              /\ image.img_getter = image_open(image.w13db)
              /\ Len(image.api_calls) = 1
              /\ image.api_calls[1].img_getter = image.img_getter

\* a request for " deepCoadd\n" was served from the deep coadd database
C18_Witness ==
    /\ image.pc = "returned"
    /\ image.ds = << " ", "d", "e", "e", "p", "C", "o", "a", "d", "d", "\n" >>
    /\ image.w13db = "W13DeepCoaddDb"
    /\ image.api_calls # << >>

====
